---- MODULE Spec2Model ----
(***************************************************************************)
(* Booking saga of otus-task-9: the book service (orchestrator), the       *)
(* events service (reservation pool) and the account service (ledger).     *)
(* Every HTTP request is served on its own goroutine; a request is a       *)
(* thread with a stack of frames, one frame per handler or function that   *)
(* is running, and one step per SQL statement or HTTP call.  Calls between *)
(* the services are synchronous: the callee's frames sit on the caller's   *)
(* stack.                                                                  *)
(***************************************************************************)
EXTENDS Integers, Sequences, FiniteSets, Bags, TLC

\* ---------------------------------------------------------------- bounds
MaxThreads == 2
MaxBooks == 2
MaxEvents == 1
MaxSlots == 1
MaxFaults == 1
MaxRows == 3
MaxCancels == 1
MaxDepth == 4

\* ------------------------------------------------------- program constants
statusCreated == 0
statusNeedToOccupy == 1
statusOccupied == 2
statusNeedToPay == 3
StatusPaid == 4
StatusNeetToNotify == 5
statusCompleted == 6
statusCancelled == -1

opPending == 0
opCommitted == 1

StatusOK == 200
StatusBadRequest == 400
StatusUnauthorized == 401
StatusInternalServerError == 500

\* ----------------------------------------------------------------- inputs
Users == {1, 2}
Tokens == {"", "r1", "r2"}
Price == 20
Deltas == {Price, 0 - Price}
Sums == {Price}

VARIABLES account, book, events, slots, thr, resp, faults, cancels

vars == <<account, book, events, slots, thr, resp, faults, cancels>>

\* ------------------------------------------------------------ thread state
\* thr is the bag of the stacks of the requests being served, one stack per
\* goroutine.  resp is the response a client got in the step just taken,
\* NoResp when the step completed no request.
NoStack == <<>>

NoResp ==
    [op |-> "none", uid |-> 0, rid |-> "", amt |-> 0, bid |-> 0, code |-> 0]

Response(op, uid, rid, amt, bid, code) ==
    [op |-> op, uid |-> uid, rid |-> rid, amt |-> amt, bid |-> bid,
     code |-> code]

Frame(fn, pc) ==
    [fn |-> fn, pc |-> pc, bid |-> 0, uid |-> 0, eid |-> 0, amt |-> 0,
     rid |-> "", ok |-> FALSE, err |-> FALSE, code |-> 0, n |-> 0]

Stacks == BagToSet(thr)

\* A thread is free to serve a new request.
Free == BagCardinality(thr) < MaxThreads

Top(st) == st[Len(st)]
At(st, fn, pc) == Top(st).fn = fn /\ Top(st).pc = pc

SetTop(st, f) == [st EXCEPT ![Len(st)] = f]
Pop(st) == SubSeq(st, 1, Len(st) - 1)

\* A storage or transport failure may strike any statement or call, at most
\* MaxFaults times in a run.
FailChoice == IF faults < MaxFaults THEN {FALSE, TRUE} ELSE {FALSE}
Charge(fail) ==
    /\ faults' = IF fail THEN faults + 1 ELSE faults
    /\ cancels' = cancels

\* The first WriteHeader of a handler wins; a handler that writes none
\* answers 200.
WriteHeader(f, code) == IF f.code = 0 THEN [f EXCEPT !.code = code] ELSE f
Answered(f) == IF f.code = 0 THEN StatusOK ELSE f.code

\* ------------------------------------------------------------------ ledger
RECURSIVE SumDelta(_)
SumDelta(rows) ==
    IF rows = {} THEN 0
    ELSE LET r == CHOOSE x \in rows : TRUE
         IN r.delta + SumDelta(rows \ {r})

getbalanceWrongStatus(acc, uid) ==
    SumDelta({r \in acc : r.user_id = uid /\ r.status = opPending})

getbalance(acc, uid) ==
    SumDelta({r \in acc : r.user_id = uid /\ r.status = opCommitted})

\* The account table's key: one row per (user_id, request_id).
accountKeyFree(acc, uid, rid) ==
    ~\E r \in acc : r.user_id = uid /\ r.request_id = rid

prepareOperationUpsert(acc, uid, rid) ==
    [acc |-> {r \in acc : ~(r.user_id = uid /\ r.request_id = rid)}
                \cup {[user_id |-> uid, request_id |-> rid, delta |-> 0,
                       status |-> opPending]},
     err |-> FALSE]

prepareOperation(acc, uid, rid) ==
    IF accountKeyFree(acc, uid, rid)
    THEN [acc |-> acc \cup {[user_id |-> uid, request_id |-> rid,
                             delta |-> 0, status |-> opPending]},
          err |-> FALSE]
    ELSE [acc |-> acc, err |-> TRUE]

updatebalanceAnyStatus(acc, uid, rid, delta) ==
    LET rows == {r \in acc : r.user_id = uid /\ r.request_id = rid}
    IN [acc |-> (acc \ rows) \cup
                {[r EXCEPT !.delta = delta, !.status = opCommitted] : r \in rows},
        err |-> rows = {}]

updatebalanceIgnoresRows(acc, uid, rid, delta) ==
    LET rows == {r \in acc : r.user_id = uid /\ r.request_id = rid
                             /\ r.status = opPending}
    IN [acc |-> (acc \ rows) \cup
                {[r EXCEPT !.delta = delta, !.status = opCommitted] : r \in rows},
        err |-> FALSE]

updatebalance(acc, uid, rid, delta) ==
    LET rows == {r \in acc : r.user_id = uid /\ r.request_id = rid
                             /\ r.status = opPending}
    IN [acc |-> (acc \ rows) \cup
                {[r EXCEPT !.delta = delta, !.status = opCommitted] : r \in rows},
        err |-> rows = {}]

\* GET /account/genreq
newReqFrom(U, T) ==
    /\ Cardinality(account) < MaxRows
    /\ \E uid \in U, rid \in T, fail \in FailChoice :
        LET res == prepareOperation(account, uid, rid)
            bad == fail \/ res.err
        IN /\ account' = IF bad THEN account ELSE res.acc
           /\ resp' = Response("newReq", uid, rid, 0, 0,
                         IF bad THEN StatusInternalServerError ELSE StatusOK)
           /\ Charge(fail)
    /\ UNCHANGED <<book, events, slots, thr>>

\* POST /account/deposit
depositFrom(U, T, D) ==
    /\ \E uid \in U, rid \in T, d \in D, fail \in FailChoice :
        LET res == updatebalance(account, uid, rid, d)
            code == IF rid = "" THEN StatusBadRequest
                    ELSE IF fail \/ res.err THEN StatusInternalServerError
                    ELSE StatusOK
        IN /\ rid = "" => ~fail
           /\ account' = IF code = StatusOK THEN res.acc ELSE account
           /\ resp' = Response("deposit", uid, rid, d, 0, code)
           /\ Charge(fail)
    /\ UNCHANGED <<book, events, slots, thr>>

\* GET /account/get
getFrom(U) ==
    /\ \E uid \in U, fail \in FailChoice :
        /\ resp' = IF fail
                   THEN Response("get", uid, "", 0, 0, StatusInternalServerError)
                   ELSE Response("get", uid, "", getbalance(account, uid), 0,
                                 StatusOK)
        /\ Charge(fail)
    /\ UNCHANGED <<account, book, events, slots, thr>>

\* ------------------------------------------------------ calls and returns
ResumePropagates(parent, child, lost) ==
    LET httpErr == lost \/ Answered(child) # StatusOK
    IN CASE parent.fn = "actionBookStatus" /\ parent.pc = "rec" ->
              IF child.err THEN [parent EXCEPT !.pc = "cancelRec"]
              ELSE [parent EXCEPT !.err = FALSE, !.pc = "ret"]
         [] parent.fn = "actionBookStatus" /\ parent.pc = "occupyWait" ->
              IF httpErr THEN [parent EXCEPT !.pc = "cancelOccupy"]
              ELSE [parent EXCEPT !.err = FALSE, !.pc = "ret"]
         [] parent.fn = "actionBookStatus" /\ parent.pc = "payWait" ->
              IF httpErr THEN [parent EXCEPT !.pc = "cancelPay"]
              ELSE [parent EXCEPT !.err = FALSE, !.pc = "ret"]
         [] parent.fn = "actionBookStatus" /\ parent.pc = "cancelSlotWait" ->
              [parent EXCEPT !.err = httpErr, !.pc = "ret"]
         [] parent.fn = "create" /\ child.err ->
              [parent EXCEPT !.code = StatusInternalServerError, !.pc = "ret"]
         [] OTHER -> [parent EXCEPT !.pc = "ret"]

\* What the caller does with the callee's result: child is the frame that
\* returns, lost says that its HTTP response did not arrive.
Resume(parent, child, lost) ==
    LET httpErr == lost \/ Answered(child) # StatusOK
    IN CASE parent.fn = "actionBookStatus" /\ parent.pc = "rec" ->
              IF child.err THEN [parent EXCEPT !.pc = "cancelRec"]
              ELSE [parent EXCEPT !.err = FALSE, !.pc = "ret"]
         [] parent.fn = "actionBookStatus" /\ parent.pc = "occupyWait" ->
              IF httpErr THEN [parent EXCEPT !.pc = "cancelOccupy"]
              ELSE [parent EXCEPT !.err = FALSE, !.pc = "ret"]
         [] parent.fn = "actionBookStatus" /\ parent.pc = "payWait" ->
              IF httpErr THEN [parent EXCEPT !.pc = "cancelPay"]
              ELSE [parent EXCEPT !.err = FALSE, !.pc = "ret"]
         [] parent.fn = "actionBookStatus" /\ parent.pc = "cancelSlotWait" ->
              [parent EXCEPT !.err = httpErr, !.pc = "ret"]
         [] OTHER -> [parent EXCEPT !.pc = "ret"]

\* A handler called by the book service's HTTP client: its response crosses
\* the network before the caller goes on.
Awaited(st) ==
    /\ Len(st) >= 2
    /\ st[Len(st)].pc = "ret"
    /\ st[Len(st)].fn \in {"occupy", "withdrawal"}

\* Returns that touch no table run on at once, up to the next statement.
RECURSIVE Settle(_)
Settle(st) ==
    IF Len(st) >= 2 /\ st[Len(st)].pc = "ret" /\ ~Awaited(st)
    THEN Settle(SetTop(Pop(st), Resume(st[Len(st) - 1], st[Len(st)], FALSE)))
    ELSE st

\* The thread with stack old goes on with stack new; when the request's own
\* handler has returned, the client gets the response and the thread ends.
Advance(old, new) ==
    LET s == Settle(new)
        rest == thr (-) SetToBag({old})
    IN IF Len(s) = 1 /\ s[1].pc = "ret"
       THEN /\ thr' = rest
            /\ resp' = Response(s[1].fn, s[1].uid, s[1].rid, s[1].amt, s[1].bid,
                                Answered(s[1]))
       ELSE /\ thr' = rest (+) SetToBag({s})
            /\ resp' = NoResp

\* A free thread starts serving a request with stack new.
Start(new) == Advance(NoStack, new)

\* The response of occupy or withdrawal reaches the book service, or is lost
\* (the caller sees a transport error although the callee ran).
Return(st) ==
    /\ Awaited(st)
    /\ \E lost \in FailChoice :
        /\ Advance(st, SetTop(Pop(st), Resume(st[Len(st) - 1], Top(st), lost)))
        /\ Charge(lost)
    /\ UNCHANGED <<account, book, events, slots>>

\* The connection of occupySlot's request breaks while the events service
\* is still serving it: c.Do returns an error to the book service at once,
\* and the occupy handler, which never looks at the connection, goes on in
\* its own goroutine and does its callback later.
ReturnEarly(st) ==
    /\ Free
    /\ faults < MaxFaults
    /\ \E i \in 2..Len(st) :
        /\ st[i].fn = "occupy"
        /\ st[i - 1].fn = "actionBookStatus" /\ st[i - 1].pc = "occupyWait"
        /\ ~(i = Len(st) /\ st[i].pc = "ret")
        /\ thr' = ((thr (-) SetToBag({st}))
                      (+) SetToBag({SetTop(SubSeq(st, 1, i - 1),
                                           Resume(st[i - 1], st[i], TRUE))}))
                      (+) SetToBag({SubSeq(st, i, Len(st))})
    /\ resp' = NoResp
    /\ Charge(TRUE)
    /\ UNCHANGED <<account, book, events, slots>>

\* POST /account/withdrawal: the handler up to its balance read.  A failed
\* read is answered 500 and the handler goes on with a balance of 0.
withdrawalEnter(uid, rid, bid, sum, fail) ==
    LET f == [Frame("withdrawal", "update") EXCEPT
                 !.uid = uid, !.rid = rid, !.bid = bid, !.amt = sum,
                 !.n = IF fail THEN 0 ELSE getbalance(account, uid)]
    IN IF fail THEN WriteHeader(f, StatusInternalServerError) ELSE f

withdrawalFrom(U, T, B, S) ==
    /\ Free
    /\ \E uid \in U, rid \in T, bid \in B, sum \in S, fail \in FailChoice :
        /\ Start(<<withdrawalEnter(uid, rid, bid, sum, fail)>>)
        /\ Charge(fail)
    /\ UNCHANGED <<account, book, events, slots>>

withdrawalUpdateNoCheck(st) ==
    /\ At(st, "withdrawal", "update")
    /\ LET f == Top(st)
       IN \E fail \in FailChoice :
           LET res == updatebalance(account, f.uid, f.rid, 0 - f.amt)
               refused == FALSE
               bad == refused \/ fail \/ res.err
               g == WriteHeader(f, IF bad THEN StatusInternalServerError
                                   ELSE StatusOK)
           IN /\ refused => ~fail
              /\ account' = IF bad THEN account ELSE res.acc
              /\ Advance(st, SetTop(st, [g EXCEPT !.ok = ~bad, !.n = 0, !.pc = "cb"]))
              /\ Charge(fail)
    /\ UNCHANGED <<book, events, slots>>

\* withdrawal: the balance check and the conditional update.
withdrawalUpdate(st) ==
    /\ At(st, "withdrawal", "update")
    /\ LET f == Top(st)
       IN \E fail \in FailChoice :
           LET res == updatebalance(account, f.uid, f.rid, 0 - f.amt)
               refused == f.amt > f.n
               bad == refused \/ fail \/ res.err
               g == WriteHeader(f, IF bad THEN StatusInternalServerError
                                   ELSE StatusOK)
           IN /\ refused => ~fail
              /\ account' = IF bad THEN account ELSE res.acc
              /\ Advance(st, SetTop(st, [g EXCEPT !.ok = ~bad, !.n = 0, !.pc = "cb"]))
              /\ Charge(fail)
    /\ UNCHANGED <<book, events, slots>>

\* withdrawal: sendCallback to /book/callback/account.
withdrawalCallback(st) ==
    /\ At(st, "withdrawal", "cb")
    /\ LET f == Top(st)
       IN \E fail \in FailChoice :
           /\ Advance(st,
                  IF fail THEN SetTop(st, [f EXCEPT !.pc = "ret"])
                  ELSE Append(SetTop(st, [f EXCEPT !.pc = "cbWait"]),
                              [Frame("callbackPayment", "start") EXCEPT
                                  !.bid = f.bid, !.ok = f.ok]))
           /\ Charge(fail)
    /\ UNCHANGED <<account, book, events, slots>>

\* ------------------------------------------------------- book: the table
getBookFound(bk, bid) == bid \in DOMAIN bk

modifyBookStatus(bk, bid, status) ==
    IF bid \in DOMAIN bk THEN [bk EXCEPT ![bid].status = status] ELSE bk

cancelBookSkipped(bk, bid) == bk

cancelBook(bk, bid) == modifyBookStatus(bk, bid, statusCancelled)

setBookPriceIgnored(bk, bid, price) == bk

setBookPrice(bk, bid, price) ==
    IF bid \in DOMAIN bk THEN [bk EXCEPT ![bid].price = price] ELSE bk

ActionFrame(bid) == [Frame("actionBookStatus", "get") EXCEPT !.bid = bid]

\* POST /book/callback/account
callbackPayment(st) ==
    /\ At(st, "callbackPayment", "start")
    /\ LET f == Top(st)
       IN \E fail \in FailChoice :
           /\ book' = IF fail THEN book
                      ELSE IF f.ok THEN modifyBookStatus(book, f.bid, StatusPaid)
                      ELSE cancelBook(book, f.bid)
           /\ Advance(st,
                  IF f.ok
                  THEN Append(SetTop(st, [f EXCEPT !.pc = "absWait"]),
                              ActionFrame(f.bid))
                  ELSE SetTop(st, [f EXCEPT !.pc = "ret"]))
           /\ Charge(fail)
    /\ UNCHANGED <<account, events, slots>>

actionPcCancelledRetries(status) ==
    CASE status = statusCreated -> "created"
      [] status = statusNeedToOccupy -> "needToOccupy"
      [] status = statusOccupied -> "occupied"
      [] status = statusNeedToPay -> "needToPay"
      [] status = statusCancelled -> "needToOccupy"
      [] OTHER -> "ret"

\* actionBookStatus: getBook and the switch on the status read.
actionPc(status) ==
    CASE status = statusCreated -> "created"
      [] status = statusNeedToOccupy -> "needToOccupy"
      [] status = statusOccupied -> "occupied"
      [] status = statusNeedToPay -> "needToPay"
      [] OTHER -> "ret"

actionBookStatusGet(st) ==
    /\ At(st, "actionBookStatus", "get")
    /\ LET f == Top(st)
       IN \E fail \in FailChoice :
           /\ Advance(st,
                  IF fail \/ ~getBookFound(book, f.bid)
                  THEN SetTop(st, [f EXCEPT !.err = TRUE, !.pc = "ret"])
                  ELSE LET b == book[f.bid]
                       IN SetTop(st, [f EXCEPT !.uid = b.user_id,
                                        !.eid = b.event_id, !.amt = b.price,
                                        !.pc = actionPc(b.status)]))
           /\ Charge(fail)
    /\ UNCHANGED <<account, book, events, slots>>

\* ------------------------------------------------------- events service
occupySlotEndpoint == "/events/occupy"
cancelSlotEndpoint == "/events/cancel"

\* POST /events/create
createEvent ==
    /\ Len(events) < MaxEvents
    /\ \E total \in 1..MaxSlots, fail \in FailChoice :
        /\ events' = IF fail THEN events
                     ELSE Append(events, [price |-> Price, total_slots |-> total])
        /\ resp' = Response("createEvent", 0, "", total, 0,
                      IF fail THEN StatusInternalServerError ELSE StatusOK)
        /\ Charge(fail)
    /\ UNCHANGED <<account, book, slots, thr>>

getEventFound(ev, eid) == eid \in DOMAIN ev

getOccupiedSlots(sl, eid) == Cardinality({s \in sl : s[1] = eid})

\* The slots table's key: one row per (event_id, book_id).
slotsKeyFree(sl, eid, bid) == <<eid, bid>> \notin sl

eventsOccupySlotBlind(sl, eid, bid) ==
    [slots |-> sl \cup {<<eid, bid>>}, err |-> FALSE]

eventsOccupySlot(sl, eid, bid) ==
    IF slotsKeyFree(sl, eid, bid)
    THEN [slots |-> sl \cup {<<eid, bid>>}, err |-> FALSE]
    ELSE [slots |-> sl, err |-> TRUE]

eventsCancelSlotAll(sl, bid) == {}

eventsCancelSlot(sl, bid) == {s \in sl : s[2] # bid}

\* What may go wrong when a call is made: the call is lost, or the callee's
\* first read fails, or (occupy) its second read fails.
CallChoice ==
    IF faults < MaxFaults THEN {"ok", "lost", "read", "read2"} ELSE {"ok"}

\* POST /events/occupy: the handler up to getEvent and getTotalSlots.
occupyEnter(uid, bid, eid, choice) ==
    LET f == [Frame("occupy", "count") EXCEPT !.uid = uid, !.bid = bid, !.eid = eid]
    IN IF choice = "read" \/ ~getEventFound(events, eid)
       THEN [WriteHeader(f, StatusInternalServerError) EXCEPT !.pc = "cb"]
       ELSE [f EXCEPT !.amt = events[eid].price,
                      !.n = IF choice = "read2" THEN 0
                            ELSE events[eid].total_slots]

occupyCountNoCallback(st) ==
    /\ At(st, "occupy", "count")
    /\ LET f == Top(st)
       IN \E fail \in FailChoice :
           LET occupied == IF fail THEN 0 ELSE getOccupiedSlots(slots, f.eid)
           IN /\ Advance(st, SetTop(st,
                     IF f.n > occupied THEN [f EXCEPT !.n = 0, !.pc = "insert"]
                     ELSE [WriteHeader(f, StatusOK) EXCEPT !.n = 0, !.pc = "ret"]))
              /\ Charge(fail)
    /\ UNCHANGED <<account, book, events, slots>>

occupyCountAtLeast(st) ==
    /\ At(st, "occupy", "count")
    /\ LET f == Top(st)
       IN \E fail \in FailChoice :
           LET occupied == IF fail THEN 0 ELSE getOccupiedSlots(slots, f.eid)
           IN /\ Advance(st, SetTop(st,
                     IF f.n >= occupied THEN [f EXCEPT !.n = 0, !.pc = "insert"]
                     ELSE [WriteHeader(f, StatusOK) EXCEPT !.n = 0, !.pc = "cb"]))
              /\ Charge(fail)
    /\ UNCHANGED <<account, book, events, slots>>

\* occupy: getOccupiedSlots and the capacity test.
occupyCount(st) ==
    /\ At(st, "occupy", "count")
    /\ LET f == Top(st)
       IN \E fail \in FailChoice :
           LET occupied == IF fail THEN 0 ELSE getOccupiedSlots(slots, f.eid)
           IN /\ Advance(st, SetTop(st,
                     IF f.n > occupied THEN [f EXCEPT !.n = 0, !.pc = "insert"]
                     ELSE [WriteHeader(f, StatusOK) EXCEPT !.n = 0, !.pc = "cb"]))
              /\ Charge(fail)
    /\ UNCHANGED <<account, book, events, slots>>

\* occupy: the insert into slots.
occupyInsert(st) ==
    /\ At(st, "occupy", "insert")
    /\ LET f == Top(st)
       IN \E fail \in FailChoice :
           LET res == eventsOccupySlot(slots, f.eid, f.bid)
               bad == fail \/ res.err
           IN /\ slots' = IF bad THEN slots ELSE res.slots
              /\ Advance(st, SetTop(st,
                     [WriteHeader(f, IF bad THEN StatusInternalServerError
                                     ELSE StatusOK)
                         EXCEPT !.ok = ~bad, !.pc = "cb"]))
              /\ Charge(fail)
    /\ UNCHANGED <<account, book, events>>

\* occupy: sendCallback to /book/callback/events.
occupyCallback(st) ==
    /\ At(st, "occupy", "cb")
    /\ LET f == Top(st)
       IN \E fail \in FailChoice :
           /\ Advance(st,
                  IF fail THEN SetTop(st, [f EXCEPT !.pc = "ret"])
                  ELSE Append(SetTop(st, [f EXCEPT !.pc = "cbWait"]),
                              [Frame("callbackEvents", "start") EXCEPT
                                  !.bid = f.bid, !.uid = f.uid, !.amt = f.amt,
                                  !.ok = f.ok]))
           /\ Charge(fail)
    /\ UNCHANGED <<account, book, events, slots>>

\* POST /events/occupy from a client of the events service.
occupyFrom(U, B, E) ==
    /\ Free
    /\ \E uid \in U, bid \in B, eid \in E, choice \in CallChoice \ {"lost"} :
        /\ Start(<<occupyEnter(uid, bid, eid, choice)>>)
        /\ Charge(choice # "ok")
    /\ UNCHANGED <<account, book, events, slots>>

\* POST /events/cancel
cancelSlotFrom(B) ==
    /\ cancels < MaxCancels
    /\ \E bid \in B, fail \in FailChoice :
        /\ slots' = IF fail THEN slots ELSE eventsCancelSlot(slots, bid)
        /\ resp' = Response("cancelSlot", 0, "", 0, bid,
                      IF fail THEN StatusInternalServerError ELSE StatusOK)
        /\ faults' = IF fail THEN faults + 1 ELSE faults
        /\ cancels' = cancels + 1
    /\ UNCHANGED <<account, book, events, thr>>

\* --------------------------------------------------------- book service
\* POST /book/create
createFrom(U, E) ==
    /\ Free
    /\ Len(book) < MaxBooks
    /\ \E uid \in U, eid \in E, fail \in FailChoice :
        LET bid == Len(book) + 1
        IN /\ book' = IF fail THEN book
                      ELSE Append(book, [user_id |-> uid, event_id |-> eid,
                                         price |-> 0, status |-> statusCreated])
           /\ IF fail
              THEN /\ resp' = Response("create", uid, "", 0, 0,
                                 StatusInternalServerError)
                   /\ UNCHANGED thr
              ELSE Start(<<[Frame("create", "absWait") EXCEPT
                                    !.uid = uid, !.eid = eid, !.bid = bid,
                                    !.code = StatusOK],
                                ActionFrame(bid)>>)
           /\ Charge(fail)
    /\ UNCHANGED <<account, events, slots>>

\* actionBookStatus, case statusCreated: the status write and the self-call.
actionCreated(st) ==
    /\ At(st, "actionBookStatus", "created")
    /\ LET f == Top(st)
       IN \E fail \in FailChoice :
           /\ book' = IF fail THEN book
                      ELSE modifyBookStatus(book, f.bid, statusNeedToOccupy)
           /\ Advance(st, Append(SetTop(st, [f EXCEPT !.pc = "rec"]),
                                ActionFrame(f.bid)))
           /\ Charge(fail)
    /\ UNCHANGED <<account, events, slots>>

\* actionBookStatus, case statusOccupied.
actionOccupied(st) ==
    /\ At(st, "actionBookStatus", "occupied")
    /\ LET f == Top(st)
       IN \E fail \in FailChoice :
           /\ book' = IF fail THEN book
                      ELSE modifyBookStatus(book, f.bid, statusNeedToPay)
           /\ Advance(st, Append(SetTop(st, [f EXCEPT !.pc = "rec"]),
                                ActionFrame(f.bid)))
           /\ Charge(fail)
    /\ UNCHANGED <<account, events, slots>>

\* actionBookStatus, case statusNeedToOccupy: occupySlot posts to the events
\* service.
actionNeedToOccupy(st) ==
    /\ At(st, "actionBookStatus", "needToOccupy")
    /\ LET f == Top(st)
       IN \E choice \in CallChoice :
           /\ Advance(st,
                  IF choice = "lost"
                  THEN SetTop(st, [f EXCEPT !.pc = "cancelOccupy"])
                  ELSE Append(SetTop(st, [f EXCEPT !.pc = "occupyWait"]),
                              occupyEnter(f.uid, f.bid, f.eid, choice)))
           /\ Charge(choice # "ok")
    /\ UNCHANGED <<account, book, events, slots>>

\* payForBook sends PUT; the account service routes /account/withdrawal for
\* POST only, and answers any other method 405 without running the handler.
payForBookMethod == "PUT"
withdrawalRouteMethod == "POST"
routeMatches(method, routeMethod) == method = routeMethod

\* payTpl has two verbs and payForBook gives it three values: the second
\* verb, withdrawal_sum, gets the user id.
payTplSum(b) == b.uid

\* payForBook sets the X-User-Id header and no other: the X-Request-Id that
\* the account service reads from the request is empty.
payForBookRequestId(b) == ""

\* actionBookStatus, case statusNeedToPay: payForBook.
actionNeedToPay(st) ==
    /\ At(st, "actionBookStatus", "needToPay")
    /\ LET f == Top(st)
       IN \E fail \in FailChoice :
           /\ Advance(st,
                  IF fail \/ ~routeMatches(payForBookMethod, withdrawalRouteMethod)
                  THEN SetTop(st, [f EXCEPT !.pc = "cancelPay"])
                  ELSE Append(SetTop(st, [f EXCEPT !.pc = "payWait"]),
                              withdrawalEnter(f.uid, payForBookRequestId(f), f.bid,
                                              payTplSum(f),
                                              FALSE)))
           /\ Charge(fail)
    /\ UNCHANGED <<account, book, events, slots>>

\* actionBookStatus: cancelBook after a failed step.
actionCancelBook(st) ==
    /\ Top(st).fn = "actionBookStatus"
    /\ Top(st).pc \in {"cancelRec", "cancelOccupy", "cancelPay"}
    /\ LET f == Top(st)
       IN \E fail \in FailChoice :
           /\ book' = IF fail THEN book ELSE cancelBook(book, f.bid)
           /\ Advance(st, SetTop(st,
                  IF f.pc = "cancelPay" THEN [f EXCEPT !.pc = "cancelSlot"]
                  ELSE [f EXCEPT !.err = fail, !.pc = "ret"]))
           /\ Charge(fail)
    /\ UNCHANGED <<account, events, slots>>

\* The endpoint the book service's cancelSlot posts to.
bookCancelSlotEndpoint == occupySlotEndpoint

\* actionBookStatus, case statusNeedToPay: cancelSlot after cancelBook.
actionCancelSlot(st) ==
    /\ At(st, "actionBookStatus", "cancelSlot")
    /\ LET f == Top(st)
       IN \E choice \in CallChoice :
           /\ choice = "read2" => bookCancelSlotEndpoint = occupySlotEndpoint
           /\ slots' = IF choice = "ok" /\ bookCancelSlotEndpoint = cancelSlotEndpoint
                       THEN eventsCancelSlot(slots, f.bid)
                       ELSE slots
           /\ Advance(st,
                  IF choice = "lost"
                  THEN SetTop(st, [f EXCEPT !.err = TRUE, !.pc = "ret"])
                  ELSE IF bookCancelSlotEndpoint = occupySlotEndpoint
                  THEN Append(SetTop(st, [f EXCEPT !.pc = "cancelSlotWait"]),
                              occupyEnter(f.uid, f.bid, f.eid, choice))
                  ELSE SetTop(st, [f EXCEPT !.err = (choice = "read"),
                                                !.pc = "ret"]))
           /\ Charge(choice # "ok")
    /\ UNCHANGED <<account, book, events>>

callbackEventsUnlessCancelled(st) ==
    /\ At(st, "callbackEvents", "start")
    /\ LET f == Top(st)
           go == f.ok /\ getBookFound(book, f.bid)
                      /\ book[f.bid].status # statusCancelled
       IN \E fail \in FailChoice :
           /\ book' = IF fail THEN book
                      ELSE IF go THEN modifyBookStatus(book, f.bid, statusOccupied)
                      ELSE cancelBook(book, f.bid)
           /\ Advance(st, SetTop(st,
                  [f EXCEPT !.pc = IF go THEN "price" ELSE "ret"]))
           /\ Charge(fail)
    /\ UNCHANGED <<account, events, slots>>

\* POST /book/callback/events: the status write, or cancelBook.
callbackEvents(st) ==
    /\ At(st, "callbackEvents", "start")
    /\ LET f == Top(st)
       IN \E fail \in FailChoice :
           /\ book' = IF fail THEN book
                      ELSE IF f.ok THEN modifyBookStatus(book, f.bid, statusOccupied)
                      ELSE cancelBook(book, f.bid)
           /\ Advance(st, SetTop(st,
                  [f EXCEPT !.pc = IF f.ok THEN "price" ELSE "ret"]))
           /\ Charge(fail)
    /\ UNCHANGED <<account, events, slots>>

\* callbackEvents: setBookPrice, then actionBookStatus.
callbackEventsPrice(st) ==
    /\ At(st, "callbackEvents", "price")
    /\ LET f == Top(st)
       IN \E fail \in FailChoice :
           /\ book' = IF fail THEN book ELSE setBookPrice(book, f.bid, f.amt)
           /\ Advance(st,
                  IF fail THEN SetTop(st, [f EXCEPT !.pc = "cancel"])
                  ELSE Append(SetTop(st, [f EXCEPT !.pc = "absWait"]),
                              ActionFrame(f.bid)))
           /\ Charge(fail)
    /\ UNCHANGED <<account, events, slots>>

\* callbackEvents: the price write failed, the booking is cancelled; the
\* handler still calls actionBookStatus.
callbackEventsCancel(st) ==
    /\ At(st, "callbackEvents", "cancel")
    /\ LET f == Top(st)
       IN \E fail \in FailChoice :
           /\ book' = IF fail THEN book
                      ELSE modifyBookStatus(book, f.bid, statusCancelled)
           /\ Advance(st, Append(SetTop(st, [f EXCEPT !.pc = "absWait"]),
                                ActionFrame(f.bid)))
           /\ Charge(fail)
    /\ UNCHANGED <<account, events, slots>>

\* ---------------------------------------------------------- specification
Init ==
    /\ account = {}
    /\ book = <<>>
    /\ events = <<>>
    /\ slots = {}
    /\ thr = EmptyBag
    /\ resp = NoResp
    /\ faults = 0
    /\ cancels = 0

\* The ledger alone: every user, every token.  withdrawal commits through
\* updatebalance as deposit does, with the delta 0 - sum.
newReq == newReqFrom(Users, Tokens)
deposit == depositFrom(Users, Tokens, Deltas)
get == getFrom(Users)

NextLedger ==
    \/ newReq
    \/ deposit
    \/ get

SpecLedger == Init /\ [][NextLedger]_vars

\* The three services together, for one user, one token and one event.
SagaUsers == {1}
SagaTokens == {"r1"}
SagaEvents == 1..MaxEvents
SagaBooks == 1..MaxBooks

Next ==
    \/ newReqFrom(SagaUsers, SagaTokens)
    \/ depositFrom(SagaUsers, SagaTokens, {Price})
    \/ createEvent
    \/ cancelSlotFrom(SagaBooks)
    \/ createFrom(SagaUsers, SagaEvents)
    \/ withdrawalFrom(SagaUsers, SagaTokens, SagaBooks, Sums)
    \/ \E st \in Stacks :
        \/ withdrawalUpdate(st)
        \/ withdrawalCallback(st)
        \/ callbackPayment(st)
        \/ actionBookStatusGet(st)
        \/ actionCreated(st)
        \/ actionOccupied(st)
        \/ actionNeedToOccupy(st)
        \/ actionNeedToPay(st)
        \/ actionCancelBook(st)
        \/ actionCancelSlot(st)
        \/ occupyCount(st)
        \/ occupyInsert(st)
        \/ occupyCallback(st)
        \/ callbackEvents(st)
        \/ callbackEventsPrice(st)
        \/ callbackEventsCancel(st)
        \/ Return(st)

Spec == Init /\ [][Next]_vars

\* The saga as POST /book/create drives it: no request from outside reaches
\* /account/withdrawal or /events/cancel.
NextBooking ==
    \/ newReqFrom(SagaUsers, SagaTokens)
    \/ depositFrom(SagaUsers, SagaTokens, {Price})
    \/ createEvent
    \/ createFrom(SagaUsers, SagaEvents)
    \/ \E st \in Stacks :
        \/ actionBookStatusGet(st)
        \/ actionCreated(st)
        \/ actionOccupied(st)
        \/ actionNeedToOccupy(st)
        \/ actionNeedToPay(st)
        \/ actionCancelBook(st)
        \/ actionCancelSlot(st)
        \/ occupyCount(st)
        \/ occupyInsert(st)
        \/ occupyCallback(st)
        \/ callbackEvents(st)
        \/ callbackEventsPrice(st)
        \/ callbackEventsCancel(st)
        \/ Return(st)

SpecBooking == Init /\ [][NextBooking]_vars

\* The ledger with its withdrawal requests, for one user and two tokens; no
\* booking exists, so the payment callbacks find no row to write.
Funds == 2 * Price
LedgerUsers == {1}
LedgerTokens == {"r1", "r2"}

NextWithdraw ==
    \/ newReqFrom(LedgerUsers, LedgerTokens)
    \/ depositFrom(LedgerUsers, LedgerTokens, {Funds})
    \/ withdrawalFrom(LedgerUsers, LedgerTokens, {1}, Sums)
    \/ \E st \in Stacks :
        \/ withdrawalUpdate(st)
        \/ withdrawalCallback(st)
        \/ callbackPayment(st)
        \/ actionBookStatusGet(st)

SpecWithdraw == Init /\ [][NextWithdraw]_vars

\* The events service with its own clients: occupy and cancel requests for
\* bookings the book service does not know.
NextPool ==
    \/ createEvent
    \/ occupyFrom(SagaUsers, SagaBooks, SagaEvents)
    \/ cancelSlotFrom(SagaBooks)
    \/ \E st \in Stacks :
        \/ occupyCount(st)
        \/ occupyInsert(st)
        \/ occupyCallback(st)
        \/ callbackEvents(st)
        \/ callbackEventsPrice(st)
        \/ callbackEventsCancel(st)
        \/ actionBookStatusGet(st)

SpecPool == Init /\ [][NextPool]_vars

\* A client that funds its account, books, and pays for booking 1 itself
\* through POST /account/withdrawal; no event was created, so every occupy
\* request fails at the event lookup.  The steps of one request.
StepPayment(st) ==
    \/ withdrawalUpdate(st)
    \/ withdrawalCallback(st)
    \/ callbackPayment(st)
    \/ actionBookStatusGet(st)
    \/ actionCreated(st)
    \/ actionNeedToOccupy(st)
    \/ actionCancelBook(st)
    \/ occupyCallback(st)
    \/ callbackEvents(st)
    \/ Return(st)

NextPayment ==
    \/ newReqFrom(LedgerUsers, LedgerTokens)
    \/ depositFrom(LedgerUsers, LedgerTokens, {Funds})
    \/ createFrom(SagaUsers, SagaEvents)
    \/ withdrawalFrom(LedgerUsers, LedgerTokens, {1}, Sums)
    \/ \E st \in Stacks : StepPayment(st)

\* Every request that is being served goes on: net/http runs each handler
\* in a goroutine of its own, and the handlers take no lock.
SpecPayment ==
    /\ Init /\ [][NextPayment]_vars
    /\ WF_vars(\E st \in Stacks : st[1].fn = "create" /\ StepPayment(st))
    /\ WF_vars(\E st \in Stacks : st[1].fn = "withdrawal" /\ StepPayment(st))

\* The saga when nothing fails but the connection that carries the response
\* of an occupy request: the response is lost after the handler has ended
\* (the callback came first) or the connection breaks before (the callback
\* comes after the caller has gone on).
StepReorder(st) ==
    \/ actionBookStatusGet(st)
    \/ actionCreated(st)
    \/ actionOccupied(st)
    \/ actionNeedToOccupy(st)
    \/ actionNeedToPay(st)
    \/ actionCancelBook(st)
    \/ actionCancelSlot(st)
    \/ occupyCount(st)
    \/ occupyInsert(st)
    \/ occupyCallback(st)
    \/ callbackEvents(st)
    \/ callbackEventsPrice(st)

NextReorder ==
    \/ createEvent /\ faults' = faults
    \/ createFrom(SagaUsers, SagaEvents) /\ faults' = faults
    \/ \E st \in Stacks : StepReorder(st) /\ faults' = faults
    \/ \E st \in Stacks : Return(st)
    \/ \E st \in Stacks : ReturnEarly(st)

SpecReorder == Init /\ [][NextReorder]_vars

\* ------------------------------------------------------------- the ledger
Entries(acc, uid, rid) == {r \in acc : r.user_id = uid /\ r.request_id = rid}

CommittedSum(acc, uid) ==
    SumDelta({r \in acc : r.user_id = uid /\ r.status = opCommitted})

\* C1: a deposit(u, t, d) on a token t (a non-empty X-Request-Id) reserved
\* once and not yet applied is answered 200 unless the storage fails, and
\* then leaves exactly one entry for (u, t), Committed with delta d, and
\* raises the balance of u by d; a deposit on a token already applied is
\* answered with a failure and changes no entry, so that calling deposit
\* twice changes the balance once.
C1_IdempotentApply ==
    [][resp'.op = "deposit" =>
         LET u == resp'.uid
             t == resp'.rid
             d == resp'.amt
             before == Entries(account, u, t)
         IN /\ (resp'.code = StatusOK /\ Cardinality(before) = 1
                /\ \E r \in before : r.status = opPending)
                  => /\ Entries(account', u, t) =
                           {[user_id |-> u, request_id |-> t, delta |-> d,
                             status |-> opCommitted]}
                     /\ CommittedSum(account', u) = CommittedSum(account, u) + d
                     /\ account' \ Entries(account', u, t) = account \ before
            /\ (\E r \in before : r.status = opCommitted)
                  => /\ resp'.code # StatusOK
                     /\ account' = account
            /\ (faults' = faults /\ t # "" /\ before # {}
                /\ \A r \in before : r.status = opPending)
                  => resp'.code = StatusOK]_vars

\* The second of two deposits with the same token and delta was refused.
C1_Witness ==
    /\ resp.op = "deposit"
    /\ resp.code = StatusInternalServerError
    /\ faults = 0
    /\ Entries(account, resp.uid, resp.rid) =
          {[user_id |-> resp.uid, request_id |-> resp.rid, delta |-> resp.amt,
            status |-> opCommitted]}

\* C2: the balance GET /account/get answers for u is the sum of delta over
\* the Committed entries of u: Pending entries add nothing to it, and it is 0
\* for a user without entries.
C2_BalanceIsCommittedSum ==
    \A u \in Users :
       /\ getbalance(account, u) = CommittedSum(account, u)
       /\ (resp.op = "get" /\ resp.uid = u /\ resp.code = StatusOK)
             => resp.amt = CommittedSum(account, u)
       /\ (\A r \in account : r.user_id = u => r.status = opPending)
             => getbalance(account, u) = 0

\* A user with a Pending and a Committed entry is told the Committed delta.
C2_Witness ==
    /\ resp.op = "get"
    /\ resp.code = StatusOK
    /\ resp.amt = Price
    /\ \E r \in account : r.user_id = resp.uid /\ r.status = opPending
    /\ \E r \in account : r.user_id = resp.uid /\ r.status = opCommitted

\* C3: a deposit(u, t, d) with a token for which u has no Pending entry
\* (never reserved, or already applied) changes no ledger entry and no
\* balance and is answered with a failure.
C3_NoMatchingReservation ==
    [][(/\ resp'.op = "deposit"
        /\ ~\E r \in Entries(account, resp'.uid, resp'.rid) :
               r.status = opPending)
         => /\ account' = account
            /\ resp'.code # StatusOK
            /\ \A u \in Users : getbalance(account', u) = getbalance(account, u)]_vars

\* A deposit with a token never reserved was refused while the user had a
\* balance.
C3_Witness ==
    /\ resp.op = "deposit"
    /\ resp.code = StatusInternalServerError
    /\ faults = 0
    /\ Entries(account, resp.uid, resp.rid) = {}
    /\ getbalance(account, resp.uid) = Price

\* ------------------------------------------------- the reservation pool
\* C4: in every reachable state, and for every event, the number of
\* occupancy records of the event is at most the event's total_slots.
C4_OccupancyWithinCapacity ==
    \A eid \in DOMAIN events :
       getOccupiedSlots(slots, eid) <= events[eid].total_slots

\* An occupy request of stack st for event eid inserted its record and
\* reports success.
OccupySucceeded(st, eid) ==
    \E i \in 1..Len(st) :
       st[i].fn = "occupy" /\ st[i].eid = eid /\ st[i].ok

\* C5: of the occupy requests that run concurrently for an event with one
\* free slot (capacity 1, no record yet, nothing released meanwhile), at most
\* one inserts a record and reports success.
C5_OneConcurrentOccupyWins ==
    \A eid \in DOMAIN events :
       (events[eid].total_slots = 1 /\ faults = 0 /\ cancels = 0)
          => Cardinality({st \in Stacks : OccupySucceeded(st, eid)}) <= 1

\* ------------------------------------------------------- the orchestrator
\* C6: every change of a booking's status moves forward in the order
\* statusCreated < statusNeedToOccupy < statusOccupied < statusNeedToPay <
\* StatusPaid < statusCompleted, or goes to statusCancelled from a status that
\* is not terminal.
C6_StatusMonotonic ==
    [][\A b \in DOMAIN book :
          LET old == book[b].status
              new == book'[b].status
          IN new # old =>
                \/ new = statusCancelled /\ old # statusCompleted
                \/ old # statusCancelled /\ new # statusCancelled /\ new > old]_vars

\* C7: once the status of a booking is statusCancelled, no step changes it.
C7_CancelledAbsorbing ==
    [][\A b \in DOMAIN book :
          book[b].status = statusCancelled
             => book'[b].status = statusCancelled]_vars

\* POST /book/create has just been answered 200 for booking resp.bid after a
\* run without storage or transport failures and without requests to
\* /events/cancel, and no request is being served.
SagaEnded ==
    /\ resp.op = "create"
    /\ resp.code = StatusOK
    /\ thr = EmptyBag
    /\ faults = 0
    /\ cancels = 0

\* C8: when the saga of a booking whose slot was occupied (its price was set
\* by the reservation callback) has ended without payment, the booking's
\* occupancy record is deleted and the booking is statusCancelled.
C8_CompensationReleasesSlot ==
    (SagaEnded /\ book[resp.bid].price = Price
     /\ book[resp.bid].status \notin {StatusPaid, statusCompleted})
       => /\ <<book[resp.bid].event_id, resp.bid>> \notin slots
          /\ book[resp.bid].status = statusCancelled

\* The only booking: user 1, the event of capacity 1 and price Price, the
\* slot was occupied.
OneBooking ==
    /\ SagaEnded
    /\ Len(book) = 1
    /\ book[1].user_id = 1
    /\ book[1].price = Price
    /\ events[book[1].event_id].total_slots = 1

\* C9: the booking of user 1 with balance 0 on the event of capacity 1 and
\* price Price ends statusCancelled, with no occupancy record of the event
\* and the balance still 0.
C9_InsufficientFunds ==
    (OneBooking /\ account = {})
       => /\ book[1].status = statusCancelled
          /\ getOccupiedSlots(slots, book[1].event_id) = 0
          /\ getbalance(account, 1) = 0

\* C10: the booking of user 1 with balance Price on the event of capacity 1
\* and price Price ends statusCompleted, with the balance 0 and one
\* occupancy record of the event.
C10_HappyPath ==
    (OneBooking
     /\ account = {[user_id |-> 1, request_id |-> "r1", delta |-> Price,
                    status |-> opCommitted]})
       => /\ book[1].status = statusCompleted
          /\ getbalance(account, 1) = 0
          /\ getOccupiedSlots(slots, book[1].event_id) = 1

\* C11: in every state in which no request is being served, a booking whose
\* status is statusCancelled has no occupancy record.
C11_CancelledHoldsNoSlot ==
    thr = EmptyBag =>
       \A b \in DOMAIN book :
          book[b].status = statusCancelled => ~\E s \in slots : s[2] = b

Serves(st, fn) == st[1].fn = fn

\* The thread that takes a step, and what its stack becomes.
Took(st) == st \in Stacks /\ CopiesIn(st, thr') < CopiesIn(st, thr)
Gave == {s \in BagToSet(thr') : CopiesIn(s, thr') > CopiesIn(s, thr)}

\* The withdrawals of token t of user u among the requests of bag b that
\* committed.
Winners(b, u, t) ==
    LET won == {st \in BagToSet(b) : /\ Serves(st, "withdrawal")
                                     /\ st[1].uid = u /\ st[1].rid = t
                                     /\ st[1].ok}
    IN [st \in won |-> b[st]]

\* C13: of the deposits and withdrawals that commit on one Pending entry
\* (u, t) concurrently, one performs the update: a withdrawal whose balance
\* check passed and that finds the entry Pending commits it, with delta
\* 0 - sum, unless the storage fails; at most one withdrawal of (u, t) ever
\* reports success, and the entry then carries that withdrawal's delta; one
\* that finds the entry no longer Pending is answered 500.
C13_OneCommitWins ==
    [][/\ \A u \in LedgerUsers, t \in LedgerTokens :
             /\ BagCardinality(Winners(thr', u, t)) <= 1
             /\ \A st \in DOMAIN Winners(thr', u, t) :
                   Entries(account', u, t) =
                      {[user_id |-> u, request_id |-> t,
                        delta |-> 0 - st[1].amt, status |-> opCommitted]}
       /\ \A st \in Stacks :
             (Took(st) /\ At(st, "withdrawal", "update")) =>
                LET f == Top(st)
                    pending == \E r \in Entries(account, f.uid, f.rid) :
                                  r.status = opPending
                IN \A s \in Gave :
                      /\ (pending /\ f.amt <= f.n /\ faults' = faults)
                            => /\ Top(s).ok
                               /\ getbalance(account', f.uid) =
                                     getbalance(account, f.uid) - f.amt
                      /\ ~pending
                            => /\ ~Top(s).ok
                               /\ Top(s).code = StatusInternalServerError
                               /\ account' = account]_vars

\* Two withdrawals of one token ran concurrently with funds for both: one
\* committed, the other found no Pending entry.
C13_Witness ==
    /\ faults = 0
    /\ \E s1 \in Stacks, s2 \in Stacks :
          /\ Serves(s1, "withdrawal") /\ Serves(s2, "withdrawal")
          /\ s1[1].uid = s2[1].uid /\ s1[1].rid = s2[1].rid
          /\ s1[1].ok
          /\ ~s2[1].ok /\ s2[1].pc # "update"
          /\ getbalance(account, s1[1].uid) >= s2[1].amt

\* C14: a withdrawal whose sum is greater than the balance it read (0 when
\* the read failed) changes no ledger entry, is answered 500 and its callback
\* to /book/callback/account carries status false.
C14_InsufficientFundsRejected ==
    [][/\ \A st \in Stacks :
             (Took(st) /\ At(st, "withdrawal", "update")
              /\ Top(st).amt > Top(st).n)
                => /\ account' = account
                   /\ \A s \in Gave :
                         /\ ~Top(s).ok
                         /\ Top(s).code = StatusInternalServerError
       /\ \A st \in Stacks :
             (Took(st) /\ At(st, "withdrawal", "cb") /\ ~Top(st).ok)
                => /\ account' = account
                   /\ \A s \in Gave :
                         Top(s).fn = "callbackPayment"
                            => ~Top(s).ok /\ Top(s).bid = Top(st).bid]_vars

\* The only request being served, a withdrawal of a reserved token, has just
\* been refused for its sum: the entry is still Pending.
C14_Witness ==
    /\ faults = 0
    /\ resp = NoResp
    /\ BagCardinality(thr) = 1
    /\ \E st \in Stacks :
          /\ At(st, "withdrawal", "cb")
          /\ ~Top(st).ok
          /\ Top(st).code = StatusInternalServerError
          /\ Top(st).amt > getbalance(account, Top(st).uid)
          /\ \E r \in Entries(account, Top(st).uid, Top(st).rid) :
                r.status = opPending

\* C15: a withdrawal that finds no Pending entry for its (user, token), even
\* with a sum within the balance it read, commits nothing: no entry and no
\* balance changes, it is answered 500 and reports status false.
C15_WithdrawNeedsReservation ==
    [][\A st \in Stacks :
          (/\ Took(st)
           /\ At(st, "withdrawal", "update")
           /\ ~\E r \in Entries(account, Top(st).uid, Top(st).rid) :
                  r.status = opPending)
             => /\ account' = account
                /\ getbalance(account', Top(st).uid) =
                      getbalance(account, Top(st).uid)
                /\ \A s \in Gave :
                      /\ Top(s).pc = "cb"
                      /\ ~Top(s).ok
                      /\ Top(s).code = StatusInternalServerError]_vars

\* The only request being served, a withdrawal of a token never reserved by a
\* user with funds, has just been refused.
C15_Witness ==
    /\ faults = 0
    /\ resp = NoResp
    /\ BagCardinality(thr) = 1
    /\ \E st \in Stacks :
          /\ At(st, "withdrawal", "cb")
          /\ ~Top(st).ok
          /\ Top(st).code = StatusInternalServerError
          /\ Entries(account, Top(st).uid, Top(st).rid) = {}
          /\ getbalance(account, Top(st).uid) >= Top(st).amt

\* The callback frame cb reports the outcome of the occupy frame f.
Reports(cb, f) ==
    /\ cb.fn = "callbackEvents" /\ cb.pc = "start"
    /\ cb.bid = f.bid /\ cb.uid = f.uid /\ cb.amt = f.amt /\ cb.ok = f.ok

\* C16: an occupy request, whatever its outcome, sends one callback to
\* /book/callback/events and sends it last: the handler runs from its reads
\* through the insert to sendCallback, the callback carries the booking id,
\* the user id, the price read from the event (0 when the event was not
\* read) and status true exactly when the record was inserted, and after
\* sendCallback the handler only returns.
C16_OneOccupyCallback ==
    [][\A st \in Stacks : Took(st) =>
          LET k == Len(st)
              f == Top(st)
          IN \A s \in Gave :
                /\ (f.fn = "occupy" /\ f.pc \in {"count", "insert"})
                      => /\ Len(s) = k
                         /\ s[k].pc \in {"insert", "cb"}
                         /\ s[k].pc = "insert" => f.pc = "count"
                         /\ s[k].ok => <<f.eid, f.bid>> \in slots' \ slots
                /\ (f.fn = "occupy" /\ f.pc = "cb")
                      => /\ f.ok => f.amt = events[f.eid].price
                         /\ f.amt # 0 => f.amt = events[f.eid].price
                         /\ \/ /\ Len(s) = k + 1
                               /\ s[k] = [f EXCEPT !.pc = "cbWait"]
                               /\ Reports(s[k + 1], f)
                            \/ /\ faults' = faults + 1
                               /\ s = SetTop(st, [f EXCEPT !.pc = "ret"])
                /\ (f.fn = "occupy" /\ f.pc = "ret") => Len(s) < k
                /\ \A i \in 1..(k - 1) :
                      (st[i].fn = "occupy" /\ Len(s) >= i)
                         => /\ s[i].fn = "occupy"
                            /\ s[i].pc \in {"cbWait", "ret"}
                            /\ s[i].pc = "ret" => Len(s) = i
                /\ (f.fn # "occupy" /\ Len(s) = k + 1 /\ Top(s).fn = "occupy")
                      => /\ Top(s).pc \in {"count", "cb"}
                         /\ ~Top(s).ok]_vars

\* An occupy request that found no free slot is sending its callback: status
\* false, with the price of the event.
C16_Witness ==
    /\ faults = 0
    /\ \E st \in Stacks :
          /\ Len(st) >= 2
          /\ Top(st).fn = "callbackEvents" /\ Top(st).pc = "start"
          /\ ~Top(st).ok
          /\ Top(st).amt = Price
          /\ st[Len(st) - 1].fn = "occupy"
          /\ st[Len(st) - 1].code = StatusOK
          /\ Reports(Top(st), st[Len(st) - 1])

C18_CreateAnswerFixed ==
    /\ \A st \in Stacks :
          st[1].fn = "create"
             => st[1].code = StatusOK /\ st[1].bid \in DOMAIN book
    /\ resp.op = "create"
          => IF resp.bid # 0
             THEN resp.code = StatusOK /\ resp.bid \in DOMAIN book
             ELSE resp.code = StatusInternalServerError

\* A booking was accepted with 200 although its first status write failed
\* and the saga stopped with the booking still Created.
C18_Witness ==
    /\ resp.op = "create"
    /\ resp.code = StatusOK
    /\ faults = 1
    /\ thr = EmptyBag
    /\ book[resp.bid].status = statusCreated

\* A booking that has reached the end of its saga.
Terminal(b) ==
    b \in DOMAIN book /\ book[b].status \in {statusCompleted, statusCancelled}

\* C19: when every request that is being served goes on and no call, no
\* callback and no statement fails, a booking that was created is, from some
\* moment on, Completed or Cancelled for ever.
C19_EventuallyTerminal ==
    \A b \in SagaBooks :
        <>[](b \in DOMAIN book => (Terminal(b) \/ faults > 0))

\* C20: a Committed ledger entry stays as it is: no step of a reserveToken,
\* deposit or withdrawal request, whatever its user, token and amount,
\* removes it or changes its delta or status.
C20_CommittedImmutable ==
    [][\A r \in account : r.status = opCommitted => r \in account']_vars

\* A withdrawal on the token of the only entry, which is Committed with the
\* deposited funds, has failed although the balance covers the amount, and
\* the entry is as the deposit left it.
C20_Witness ==
    /\ faults = 0
    /\ \E st \in Stacks :
          /\ At(st, "withdrawal", "cb")
          /\ ~Top(st).ok
          /\ Top(st).amt <= getbalance(account, Top(st).uid)
          /\ account = {[user_id |-> Top(st).uid, request_id |-> Top(st).rid,
                         delta |-> Funds, status |-> opCommitted]}

C22_FailedStepNoRecord ==
    [][\A st \in Stacks : (Took(st) /\ faults' > faults) =>
          LET k == Len(st)
              f == Top(st)
          IN \A s \in Gave :
                /\ (f.fn = "occupy" /\ f.pc \in {"count", "insert"})
                      => /\ slots' = slots
                         /\ s[k].pc = "cb"
                         /\ ~s[k].ok
                /\ (f.fn # "occupy" /\ Len(s) = k + 1 /\ Top(s).fn = "occupy")
                      => /\ ~Top(s).ok
                         /\ Top(s).pc = "cb" \/ Top(s).n = 0]_vars

\* C23: with no failure, the step on a booking in status Created writes
\* NeedToOccupy and calls the step function again at once, in the same
\* request; that call reads NeedToOccupy and posts the occupy request of the
\* booking, and this is the only place from which an occupy request is
\* posted: one occupy request for a created booking.
C23_OneOccupyCall ==
    [][\A st \in Stacks : (Took(st) /\ faults' = 0) =>
          LET k == Len(st)
              f == Top(st)
          IN \A s \in Gave :
                /\ At(st, "actionBookStatus", "created")
                      => /\ book'[f.bid].status = statusNeedToOccupy
                         /\ s = Append(SetTop(st, [f EXCEPT !.pc = "rec"]),
                                       ActionFrame(f.bid))
                /\ (/\ At(st, "actionBookStatus", "get")
                    /\ getBookFound(book, f.bid)
                    /\ book[f.bid].status = statusNeedToOccupy)
                      => /\ Len(s) = k
                         /\ s[k].pc = "needToOccupy"
                         /\ book' = book
                /\ At(st, "actionBookStatus", "needToOccupy")
                      => /\ Len(s) = k + 1
                         /\ s[k].pc = "occupyWait"
                         /\ Top(s).fn = "occupy"
                         /\ Top(s).bid = f.bid
                         /\ Top(s).eid = book[f.bid].event_id
                         /\ book' = book
                /\ (f.fn # "occupy" /\ Len(s) = k + 1 /\ Top(s).fn = "occupy")
                      => /\ At(st, "actionBookStatus", "needToOccupy")
                         /\ st[1].fn = "create" /\ st[1].bid = f.bid
                         /\ k = 3 /\ st[2].pc = "rec"]_vars

\* C24: the step on a booking in status NeedToOccupy posts the occupy
\* request and writes no status itself.  When the request cannot be sent,
\* its response is lost or is not 200, the step goes on to cancelBook, which
\* (unless the write fails) leaves the booking Cancelled; when the response
\* is 200 the step returns without writing a status.
C24_OccupyCallOutcome ==
    [][\A st \in Stacks : Took(st) =>
          LET k == Len(st)
              f == Top(st)
          IN /\ At(st, "actionBookStatus", "needToOccupy")
                   => /\ book' = book
                      /\ \A s \in Gave :
                            IF Len(s) = k + 1
                            THEN s[k].pc = "occupyWait" /\ Top(s).fn = "occupy"
                            ELSE /\ faults' > faults
                                 /\ s = SetTop(st, [f EXCEPT !.pc = "cancelOccupy"])
             /\ (Awaited(st) /\ st[k - 1].pc = "occupyWait")
                   => /\ book' = book
                      /\ \A s \in Gave :
                            IF faults' > faults \/ Answered(f) # StatusOK
                            THEN /\ Len(s) = k - 1
                                 /\ s[k - 1] = [st[k - 1] EXCEPT !.pc = "cancelOccupy"]
                            ELSE Len(s) < k - 1
             /\ At(st, "actionBookStatus", "cancelOccupy")
                   => IF faults' = faults
                      THEN book' = [book EXCEPT ![f.bid].status = statusCancelled]
                      ELSE book' = book]_vars

\* The occupy request of booking 1 was not answered 200 (the call or its
\* response was lost, or a read or the insert failed), and the request has
\* ended with the booking Cancelled and no record held.
C24_Witness ==
    /\ faults = 1
    /\ thr = EmptyBag
    /\ resp.op = "create" /\ resp.bid = 1
    /\ Len(events) = 1
    /\ slots = {}
    /\ book[1].status = statusCancelled
    /\ book[1].price = 0

C26_PaymentAmount ==
    [][\A st \in Stacks : (Took(st) /\ At(st, "actionBookStatus", "needToPay")) =>
          LET f == Top(st)
          IN /\ f.uid = book[f.bid].user_id
             /\ f.amt = book[f.bid].price
             /\ payTplSum(f) = book[f.bid].price]_vars

\* C27: a booking is in status Paid only while the payment callback that
\* wrote it is being handled: once no request is handling a payment
\* callback, no booking is left Paid (the handling has gone on to Completed).
C27_PaidBecomesCompleted ==
    (\A st \in Stacks : \A i \in 1..Len(st) : st[i].fn # "callbackPayment")
        => \A b \in DOMAIN book : book[b].status # StatusPaid

\* C28: a call of the step function that finds its booking Cancelled
\* returns at once: it writes no table (neither the status nor the price of
\* any booking changes, no record and no ledger entry either) and it makes
\* no call, its frame being gone with nothing pushed in its place.
C28_CancelledStepNoOp ==
    [][\A st \in Stacks :
          (/\ Took(st)
           /\ At(st, "actionBookStatus", "get")
           /\ getBookFound(book, Top(st).bid)
           /\ book[Top(st).bid].status = statusCancelled)
             => /\ book' = book
                /\ slots' = slots
                /\ account' = account
                /\ \A s \in Gave :
                      /\ Len(s) < Len(st)
                      /\ \A i \in 1..Len(s) : s[i].fn = st[i].fn]_vars

\* The price write of a success callback failed, callbackEvents cancelled
\* the booking and called the step function on it, and the callback has
\* returned to the occupy request: the booking is Cancelled with no price,
\* and its record is still held.
C28_Witness ==
    /\ faults = 1
    /\ \E st \in Stacks :
          /\ At(st, "occupy", "ret")
          /\ Top(st).ok
          /\ book[Top(st).bid].status = statusCancelled
          /\ book[Top(st).bid].price = 0
          /\ <<Top(st).eid, Top(st).bid>> \in slots

\* C29: in a run without failures, when the book service sends an occupy
\* request for a booking, the status stored for the booking is NeedToOccupy,
\* and when it sends the payment request the status stored is NeedToPay.
C29_StatusWrittenBeforeCall ==
    [][\A st \in Stacks : (Took(st) /\ faults' = 0) =>
          LET k == Len(st)
              f == Top(st)
          IN /\ At(st, "actionBookStatus", "needToOccupy")
                   => book[f.bid].status = statusNeedToOccupy
             /\ At(st, "actionBookStatus", "needToPay")
                   => book[f.bid].status = statusNeedToPay
             /\ \A s \in Gave :
                   (f.fn # "occupy" /\ Len(s) = k + 1 /\ Top(s).fn = "occupy")
                      => book[Top(s).bid].status = statusNeedToOccupy]_vars

\* C30: in every state of a run without failures, a booking in status
\* Occupied, NeedToPay, Paid or Completed has the price that the success
\* callback carried, the price of its event; a price of 0 goes with the
\* statuses Created, NeedToOccupy and Cancelled only, and a price that is
\* set is the price of the event.
C30_PriceSetOnceReserved ==
    faults = 0 =>
       \A b \in DOMAIN book :
          /\ book[b].status \in {statusOccupied, statusNeedToPay, StatusPaid,
                                 statusCompleted}
                => /\ getEventFound(events, book[b].event_id)
                   /\ book[b].price = events[book[b].event_id].price
          /\ book[b].price # 0
                => /\ getEventFound(events, book[b].event_id)
                   /\ book[b].price = events[book[b].event_id].price

\* C31: when nothing fails but the connection that carries the response of
\* an occupy request, the end of the saga depends on the outcome the
\* callback carries, not on whether the callback was handled before or after
\* the book service saw the call return: once no request is being served, a
\* booking whose occupy inserted its record is Cancelled (the payment never
\* succeeds) with the price of the event and holds that record, and a
\* booking whose occupy inserted nothing is Cancelled with no price.
C31_OrderTolerated ==
    thr = EmptyBag =>
       \A b \in DOMAIN book :
          /\ book[b].status = statusCancelled
          /\ IF <<book[b].event_id, b>> \in slots
             THEN book[b].price = events[book[b].event_id].price
             ELSE book[b].price = 0

\* The connection of booking 1's occupy request broke while the request was
\* being served: the book service cancelled the booking and answered the
\* create request, and the occupy request, which inserted the record and
\* called back with success afterwards, is the last to end.
C31_Witness ==
    /\ thr = EmptyBag
    /\ faults = 1
    /\ resp.op = "occupy"
    /\ resp.bid = 1
    /\ <<book[1].event_id, 1>> \in slots
    /\ book[1].status = statusCancelled
    /\ book[1].price = Price

\* C32: in a run without failures, the compensation never goes forward
\* again: the cancelSlot step of a cancelled booking starts no occupy request
\* at the events service, and once a booking is Cancelled no occupy request
\* is started for it.
C32_CompensationDirectional ==
    [][\A st \in Stacks : (Took(st) /\ faults' = 0) =>
          \A s \in Gave :
             (Top(st).fn # "occupy" /\ Len(s) = Len(st) + 1 /\ Top(s).fn = "occupy")
                => /\ ~At(st, "actionBookStatus", "cancelSlot")
                   /\ book[Top(s).bid].status # statusCancelled]_vars

C34_PaymentToken ==
    [][\A st \in Stacks : (Took(st) /\ At(st, "actionBookStatus", "needToPay")) =>
          /\ payForBookRequestId(Top(st)) # ""
          /\ \A b \in DOMAIN book :
                b # Top(st).bid =>
                   payForBookRequestId([Top(st) EXCEPT !.bid = b])
                      # payForBookRequestId(Top(st))]_vars

\* ------------------------------------------------- rejected requests
\* The early returns of the handlers, before their first read or write.
\* hasUser: the X-User-Id header is present; uidOk: it parses as a number;
\* bodyOk: the body decodes.  0 when the request passes.
isAuthenticatedMiddleware(hasUser) ==
    IF hasUser THEN 0 ELSE StatusUnauthorized

depositRejected(hasUser, rid, uidOk, bodyOk) ==
    IF isAuthenticatedMiddleware(hasUser) # 0
    THEN isAuthenticatedMiddleware(hasUser)
    ELSE IF rid = "" THEN StatusBadRequest
    ELSE IF ~uidOk THEN StatusInternalServerError
    ELSE IF ~bodyOk THEN StatusBadRequest
    ELSE 0

withdrawalRejected(hasUser, rid, uidOk, bodyOk) ==
    IF isAuthenticatedMiddleware(hasUser) # 0
    THEN isAuthenticatedMiddleware(hasUser)
    ELSE IF ~uidOk THEN StatusInternalServerError
    ELSE IF ~bodyOk THEN StatusBadRequest
    ELSE 0

occupyRejected(hasUser, rid, uidOk, bodyOk) ==
    IF isAuthenticatedMiddleware(hasUser) # 0
    THEN isAuthenticatedMiddleware(hasUser)
    ELSE IF ~uidOk THEN StatusUnauthorized
    ELSE IF ~bodyOk THEN StatusBadRequest
    ELSE 0

rejectedRequestCallsBack(op, rid, code) ==
    [Frame(op, IF op = "deposit" THEN "ret" ELSE "cb") EXCEPT
        !.rid = rid, !.code = code]

\* The handler of a rejected request: it has written its status and
\* returns; no user id or payload was read.
rejectedRequest(op, rid, code) ==
    [Frame(op, "ret") EXCEPT !.rid = rid, !.code = code]

invalidRequest ==
    /\ Free
    /\ \E op \in {"deposit", "withdrawal", "occupy"}, rid \in Tokens,
          hasUser \in BOOLEAN, uidOk \in BOOLEAN, bodyOk \in BOOLEAN :
        LET code == CASE op = "deposit" ->
                             depositRejected(hasUser, rid, uidOk, bodyOk)
                      [] op = "withdrawal" ->
                             withdrawalRejected(hasUser, rid, uidOk, bodyOk)
                      [] OTHER -> occupyRejected(hasUser, rid, uidOk, bodyOk)
        IN /\ code # 0
           /\ Start(<<rejectedRequest(op, rid, code)>>)
    /\ Charge(FALSE)
    /\ UNCHANGED <<account, book, events, slots>>

\* The account and events services with valid and invalid requests of
\* their clients; no booking exists.
NextValidation ==
    \/ invalidRequest
    \/ newReqFrom(LedgerUsers, {"r1"})
    \/ depositFrom(LedgerUsers, {"", "r1"}, {Funds})
    \/ withdrawalFrom(LedgerUsers, {"r1"}, {1}, Sums)
    \/ createEvent
    \/ occupyFrom(SagaUsers, {1}, SagaEvents)
    \/ \E st \in Stacks :
        \/ withdrawalUpdate(st)
        \/ withdrawalCallback(st)
        \/ callbackPayment(st)
        \/ occupyCount(st)
        \/ occupyInsert(st)
        \/ occupyCallback(st)
        \/ callbackEvents(st)
        \/ callbackEventsPrice(st)
        \/ callbackEventsCancel(st)
        \/ actionBookStatusGet(st)

SpecValidation == Init /\ [][NextValidation]_vars

\* C35: a request rejected as a validation error (no user identity, no
\* token on a deposit, a user id or a payload that does not parse) changes
\* no ledger row, no occupancy record, no event and no booking, and starts
\* no thread: no callback is sent for it.
Rejection(r) ==
    \/ r.code \in {StatusUnauthorized, StatusBadRequest}
    \/ /\ r.code = StatusInternalServerError
       /\ r.op \in {"deposit", "withdrawal"}
       /\ r.uid = 0

C35_RejectionMutatesNothing ==
    [][Rejection(resp') =>
          /\ account' = account
          /\ slots' = slots
          /\ events' = events
          /\ book' = book
          /\ thr' = thr]_vars

C35_Witness ==
    /\ resp.op = "withdrawal"
    /\ resp.code = StatusBadRequest
    /\ \E r \in account : r.status = opCommitted
    /\ slots # {}

\* The ledger with withdrawals of any amount the payload can carry:
\* withdrawal_sum is an int, and the handler compares it with the balance
\* only.
AnySums == {0 - Price, 0, Price}

NextAmounts ==
    \/ newReqFrom(LedgerUsers, LedgerTokens)
    \/ depositFrom(LedgerUsers, LedgerTokens, {Funds})
    \/ withdrawalFrom(LedgerUsers, LedgerTokens, {1}, AnySums)
    \/ \E st \in Stacks :
        \/ withdrawalUpdate(st)
        \/ withdrawalCallback(st)
        \/ callbackPayment(st)
        \/ actionBookStatusGet(st)

SpecAmounts == Init /\ [][NextAmounts]_vars

\* C36: the update step of a withdrawal never increases the balance of its
\* user, whatever amount the request carries (positive, zero or negative).
C36_WithdrawNeverIncreases ==
    [][\A st \in Stacks :
          (Took(st) /\ At(st, "withdrawal", "update"))
             => getbalance(account', Top(st).uid)
                   <= getbalance(account, Top(st).uid)]_vars

\* The ledger of one user with three tokens: one carries the deposit, the
\* other two a withdrawal each.  Every amount is positive.
RaceTokens == {"r1", "r2", "r3"}

NextRace ==
    \/ newReqFrom(LedgerUsers, RaceTokens)
    \/ depositFrom(LedgerUsers, {"r1"}, {Price})
    \/ withdrawalFrom(LedgerUsers, {"r2", "r3"}, {1}, Sums)
    \/ \E st \in Stacks :
        \/ withdrawalUpdate(st)
        \/ withdrawalCallback(st)
        \/ callbackPayment(st)
        \/ actionBookStatusGet(st)

SpecRace == Init /\ [][NextRace]_vars

\* C37: with deposits and withdrawals of non-negative amounts only, the
\* balance of a user is never negative, also while two withdrawals of the
\* user with different reserved tokens are served concurrently.
C37_BalanceNeverNegative ==
    \A u \in LedgerUsers : getbalance(account, u) >= 0

\* The number of consecutive actionBookStatus frames that end at the top of
\* a stack: the invocations of one chain of self-calls.
RECURSIVE SelfCalls(_)
SelfCalls(st) ==
    IF st = <<>> \/ Top(st).fn # "actionBookStatus" THEN 0
    ELSE 1 + SelfCalls(Pop(st))

\* actionBookStatus, cases statusCreated and statusOccupied, on a store that
\* refuses the write for as long as it lasts (the reads succeed):
\* modifyBookStatus returns an error that is not looked at, and the
\* function calls itself.  The model follows the chain up to MaxDepth.
actionWriteRefused(st) ==
    /\ \/ At(st, "actionBookStatus", "created")
       \/ At(st, "actionBookStatus", "occupied")
    /\ SelfCalls(st) < MaxDepth
    /\ Advance(st, Append(SetTop(st, [Top(st) EXCEPT !.pc = "rec"]),
                          ActionFrame(Top(st).bid)))
    /\ Charge(FALSE)
    /\ UNCHANGED <<account, book, events, slots>>

NextWrites ==
    \/ createEvent
    \/ createFrom(SagaUsers, SagaEvents)
    \/ \E st \in Stacks :
        \/ actionBookStatusGet(st)
        \/ actionCreated(st)
        \/ actionOccupied(st)
        \/ actionNeedToOccupy(st)
        \/ actionNeedToPay(st)
        \/ actionCancelBook(st)
        \/ actionCancelSlot(st)
        \/ occupyCount(st)
        \/ occupyInsert(st)
        \/ occupyCallback(st)
        \/ callbackEvents(st)
        \/ callbackEventsPrice(st)
        \/ callbackEventsCancel(st)
        \/ Return(st)
    \/ \E st \in Stacks : actionWriteRefused(st)

SpecWrites == Init /\ [][NextWrites]_vars

\* C38: a chain of self-invocations of actionBookStatus ends after a bounded
\* number of invocations, also when the status writes fail and every
\* re-invocation reads the status its caller read: the chain never gets as
\* long as MaxDepth.
C38_SelfInvocationsBounded ==
    \A st \in Stacks : SelfCalls(st) < MaxDepth

\* C39: no user is charged for a cancelled booking.  Every withdrawal request
\* of SpecPayment names booking 1 and every deposit is positive, so a
\* Committed entry with a negative delta is a withdrawal made for booking 1:
\* when no request is being served and booking 1 is Cancelled, the ledger
\* holds no such entry.
C39_NoChargeForCancelled ==
    (/\ thr = EmptyBag
     /\ 1 \in DOMAIN book
     /\ book[1].status = statusCancelled)
        => \A r \in account : r.status = opCommitted => r.delta >= 0

====
